---- MODULE Spec2Model ----
(***************************************************************************)
(* The orchestration core of mhold3n/structure: gate pipeline             *)
(* (validator/gates.py), workflow model (models/workflow.py), session     *)
(* (models/session.py), the orchestrator's scheduling loop                *)
(* (runtime/orchestrator.py) and the clarification-answer endpoint        *)
(* (gateway/main.py).                                                     *)
(*                                                                         *)
(* One request handler is in flight at a time; pc is its position:        *)
(*   "idle"      nothing has been run yet                                 *)
(*   "loop"      run_workflow, top of `while True`  (orchestrator.py:191) *)
(*   "for"       run_workflow, head of `for step in ready_steps` (:213)   *)
(*   "step"      run_step, inside `try` after status = ACTIVE (:34)       *)
(*   "post"      run_step, after status = COMPLETED was set (:140)        *)
(*   "ret"       run_step has returned to run_workflow (:215)             *)
(*   "returned"  run_workflow has returned to its caller                  *)
(***************************************************************************)
EXTENDS Integers, Sequences, FiniteSets, TLC

VARIABLES
    workflow,          \* the Workflow object (models/workflow.py)
    session,           \* the Session object (models/session.py)
    active_workflows,  \* gateway/main.py: the ids in the active_workflows store
    audit,             \* the audit records emitted so far, in order
    request,           \* the call being served: its kind and its answers
    pc,                \* position of the call being served
    ready_steps,       \* run_workflow's local ready_steps (indices of steps)
    idx,               \* position of the for loop in ready_steps
    progress_made,     \* run_workflow's local progress_made
    raised,            \* the current run_step went through its except clause
    started,           \* per step: how often run_step was called on it
    kernel_calls,      \* per step: how often kernel.execute was called for it
    calls,             \* number of calls served or being served
    policy,            \* the policy and registry tables the gates load
    task               \* gateway/main.py: the /task requests served so far

vars == <<workflow, session, active_workflows, audit, request, pc, ready_steps,
          idx, progress_made, raised, started, kernel_calls, calls, policy, task>>

(***************************************************************************)
(* Bounds of the model.                                                    *)
(***************************************************************************)
NumSteps == 2

MaxCalls == 2

ChainSteps == 1

MaxTasks == 2
\* The number of steps up to which steps are added to a workflow by hand.
MaxSteps == 3
\* The number of steps of the workflows whose batches are followed.
BatchSteps == 3

\* A step id that no step of the workflow carries.
MissingId == 0

(***************************************************************************)
(* models/workflow.py: WorkflowStatus; models/gate_decision.py: Decision.  *)
(***************************************************************************)
PENDING == "pending"

ACTIVE == "active"

COMPLETED == "completed"

FAILED == "failed"

BLOCKED == "blocked"

WorkflowStatus == {PENDING, ACTIVE, COMPLETED, FAILED, BLOCKED}

ACCEPT == "ACCEPT"

CLARIFY == "CLARIFY"

REJECT == "REJECT"

FALLBACK == "FALLBACK"

ESCALATE == "ESCALATE"

WARN == "WARN"

Decision == {ACCEPT, CLARIFY, REJECT, FALLBACK, ESCALATE, WARN}

\* A variant of is_blocking that lets a REJECT decision through.
is_blocking_without_reject(d) == d.decision \in {CLARIFY, ESCALATE}

is_blocking(d) == d.decision \in {CLARIFY, REJECT, ESCALATE}

GateDecision(gate_id, decision, reasons, required_fields, questions) ==
    [gate_id |-> gate_id, decision |-> decision, reasons |-> reasons,
     required_fields |-> required_fields, clarifying_questions |-> questions]

(***************************************************************************)
(* Python dicts with string keys (session.context, workflow.context, a    *)
(* kernel's result mapping) are total functions on Keys; Absent marks a   *)
(* key the dict does not hold.                                             *)
(***************************************************************************)
Absent == "<absent>"

QuestionIds == {"q1", "q2"}

AnswerKey(q) == IF q = "q1" THEN "answer_q1" ELSE "answer_q2"

Keys == {"answer_q1", "answer_q2", "mean", "seed"}

EmptyDict == [k \in Keys |-> Absent]

\* dict.update(new)
DictUpdate(d, new) == [k \in Keys |-> IF new[k] # Absent THEN new[k] ELSE d[k]]

DictSet(d, key, val) == [d EXCEPT ![key] = val]

(***************************************************************************)
(* validator/gates.py.  A user_input is the set of phrases it contains;   *)
(* each gate tests for phrases exactly where the code tests the text.     *)
(* The policy tables (policies/*.yaml, registry/quantities.json) hold the *)
(* entries the gates' tests and the documentation name.                    *)
(***************************************************************************)
schema_gate(spec) ==
    IF spec.user_input = {} \/ spec.user_input = {"<whitespace>"}
    THEN GateDecision("schema_gate", REJECT, <<"SCHEMA_INVALID">>,
                      <<"user_input">>, <<"Please provide a valid input.">>)
    ELSE GateDecision("schema_gate", ACCEPT, <<>>, <<>>, <<>>)

\* The strings a phrase contains (`term in text`); every phrase contains
\* itself.
Substrings(phrase) ==
    CASE phrase = "specific weight" -> {"specific weight", "weight"}
      [] phrase = "lbs" -> {"lbs", "lb"}
      [] phrase = "sample size 5" -> {"sample size 5", "sample size", "sample"}
      [] OTHER -> {phrase}

\* term in text.lower()
Contains(text, term) == \E phrase \in text : term \in Substrings(phrase)

\* re.search(rf"\b{unit}\b", text): the unit stands in the text as a word.
HasToken(text, unit) == unit \in text

\* list(set(xs)): the elements of xs, each once.
RECURSIVE Dedupe(_)
Dedupe(xs) ==
    IF xs = <<>> THEN <<>>
    ELSE LET rest == Dedupe(Tail(xs))
         IN  IF \E n \in 1..Len(rest) : rest[n] = Head(xs) THEN rest
             ELSE <<Head(xs)>> \o rest

\* f"{term.replace(' ', '_').lower()}_{suffix}"
FieldName(term, suffix) ==
    CASE term = "specific weight" /\ suffix = "disambiguation" -> "specific_weight_disambiguation"
      [] term = "gamma" /\ suffix = "clarification" -> "gamma_clarification"
      [] OTHER -> "other_field"

\* The prompt the ambiguity gate builds for a term.
TermQuestion(term, kind) ==
    CASE term = "specific weight" /\ kind = "collision" -> "'specific weight' could mean multiple things."
      [] term = "gamma" /\ kind = "disallowed" -> "The term 'gamma' is ambiguous."
      [] OTHER -> "other question"

unit_consistency_gate(spec) ==
    LET hits == SelectSeq(policy.ambiguous_units,
                          LAMBDA e : HasToken(spec.user_input, e.unit))
    IN  IF hits # <<>>
        THEN GateDecision("unit_consistency_gate", CLARIFY,
                          [k \in 1..Len(hits) |-> "UNIT_AMBIGUOUS"],
                          [k \in 1..Len(hits) |-> "unit_clarification"],
                          [k \in 1..Len(hits) |-> hits[k].question])
        ELSE GateDecision("unit_consistency_gate", ACCEPT, <<>>, <<>>, <<>>)

ambiguity_gate(spec) ==
    LET dis == SelectSeq(policy.disallowed, LAMBDA t : Contains(spec.user_input, t))
        col == SelectSeq(policy.collisions, LAMBDA a : Contains(spec.user_input, a))
        reasons == [k \in 1..Len(dis) |-> "DISALLOWED_TERM"]
                   \o [k \in 1..Len(col) |-> "TERM_COLLISION"]
        required == [k \in 1..Len(dis) |-> FieldName(dis[k], "clarification")]
                    \o [k \in 1..Len(col) |-> FieldName(col[k], "disambiguation")]
        questions == [k \in 1..Len(dis) |-> TermQuestion(dis[k], "disallowed")]
                     \o [k \in 1..Len(col) |-> TermQuestion(col[k], "collision")]
    IN  IF reasons # <<>>
        THEN GateDecision("ambiguity_gate", CLARIFY, Dedupe(reasons), Dedupe(required),
                          questions)
        ELSE GateDecision("ambiguity_gate", ACCEPT, <<>>, <<>>, <<>>)

bounds_gate(spec) == GateDecision("bounds_gate", ACCEPT, <<>>, <<>>, <<>>)

experiment_safety_gate(spec) ==
    LET small == "sample size 5" \in spec.user_input
        human == /\ Contains(spec.user_input, "participant")
                 /\ policy.irb_approval_required
                 /\ ~Contains(spec.user_input, "irb")
        r1 == IF small THEN <<"Sample size 5 is below minimum 10">> ELSE <<>>
        r2 == IF human THEN <<"IRB_APPROVAL_REQUIRED">> ELSE <<>>
    IN  IF r1 \o r2 # <<>>
        THEN GateDecision("experiment_safety_gate",
                          IF human THEN CLARIFY ELSE WARN,
                          r1 \o r2,
                          IF human THEN <<"irb_protocol_number">> ELSE <<>>,
                          IF human THEN <<"Do you have IRB approval?">> ELSE <<>>)
        ELSE GateDecision("experiment_safety_gate", ACCEPT, <<>>, <<>>, <<>>)

file_write_gate(spec) ==
    IF "save" \notin spec.user_input
    THEN GateDecision("file_write_gate", ACCEPT, <<>>, <<>>, <<>>)
    ELSE IF "secret" \in spec.user_input
         THEN GateDecision("file_write_gate", REJECT,
                           <<"Potential secret exposure">>, <<>>, <<>>)
         ELSE GateDecision("file_write_gate", ACCEPT, <<>>, <<>>, <<>>)

\* The keys of the GATES registry.
GATES == {"schema_gate", "unit_consistency_gate", "ambiguity_gate",
          "bounds_gate", "experiment_safety_gate", "file_write_gate"}

\* GATES[gate_id](spec)
gate_fn(gate_id, spec) ==
    CASE gate_id = "schema_gate" -> schema_gate(spec)
      [] gate_id = "unit_consistency_gate" -> unit_consistency_gate(spec)
      [] gate_id = "ambiguity_gate" -> ambiguity_gate(spec)
      [] gate_id = "bounds_gate" -> bounds_gate(spec)
      [] gate_id = "experiment_safety_gate" -> experiment_safety_gate(spec)
      [] gate_id = "file_write_gate" -> file_write_gate(spec)

\* A variant of run_gates that rejects an identifier the registry does not
\* hold.
run_gates_rejecting_unknown(spec) ==
    [k \in 1..Len(spec.required_gates) |->
        IF spec.required_gates[k] \in GATES
        THEN gate_fn(spec.required_gates[k], spec)
        ELSE GateDecision(spec.required_gates[k], REJECT, <<"UNKNOWN_GATE">>, <<>>, <<>>)]

run_gates(spec) ==
    LET ids == SelectSeq(spec.required_gates, LAMBDA g : g \in GATES)
    IN  [k \in 1..Len(ids) |-> gate_fn(ids[k], spec)]

\* A variant of get_blocking_decisions that returns the blocking decisions
\* last first.
get_blocking_decisions_reversed(decisions) ==
    LET b == SelectSeq(decisions, is_blocking)
    IN  [k \in 1..Len(b) |-> b[Len(b) + 1 - k]]

get_blocking_decisions(decisions) == SelectSeq(decisions, is_blocking)

(***************************************************************************)
(* kernels/base.py: the registry; gateway/compliance.py: access control.  *)
(***************************************************************************)
KERNEL_REGISTRY == {"constants_v1", "data_summary_v1", "experiment_design_v1",
                    "project_mgmt_v1", "statistics_v1", "unit_converter_v1"}

\* A variant of get_kernel that finds a class for every id.
get_kernel_any(kernel_id) == TRUE

\* get_kernel(kernel_id) returns a class iff the id is registered.
get_kernel(kernel_id) == kernel_id \in KERNEL_REGISTRY

\* user_id.startswith("admin")
IsAdmin(user_id) == user_id = "admin_1"

\* A variant of check_access that allows every action to every user.
check_access_allow_all(user_id, step, action) == TRUE

\* step.sensitive stands for: "sensitive" in step.step_id
check_access(user_id, step, action) ==
    IF IsAdmin(user_id) THEN TRUE
    ELSE IF step.sensitive /\ action # "read" THEN FALSE
    ELSE TRUE

(***************************************************************************)
(* models/task_spec.py, models/workflow.py, models/session.py.            *)
(***************************************************************************)
NoSpec == [none |-> TRUE]

TaskSpec(user_input, required_gates, selected_kernels) ==
    [none |-> FALSE, user_input |-> user_input,
     required_gates |-> required_gates, selected_kernels |-> selected_kernels]

NoOutput == [kind |-> "none"]

NoError == [kind |-> "none"]

WorkflowStep(step_id, sensitive, spec, depends_on) ==
    [step_id |-> step_id, sensitive |-> sensitive, spec |-> spec,
     status |-> PENDING, depends_on |-> depends_on,
     output |-> NoOutput, error |-> NoError]

WfId == "wf_1"

NoWorkflowId == "None"

\* A variant of get_ready_steps that also returns BLOCKED steps.
get_unfinished_steps(wf) ==
    LET completed_ids == {wf.steps[k].step_id : k \in
                            {j \in 1..Len(wf.steps) : wf.steps[j].status = COMPLETED}}
        all_idx == [k \in 1..Len(wf.steps) |-> k]
    IN  SelectSeq(all_idx, LAMBDA k :
            /\ wf.steps[k].status \in {PENDING, BLOCKED}
            /\ \A dep \in wf.steps[k].depends_on : dep \in completed_ids)

\* A variant of get_ready_steps that does not look at the status.
get_steps_with_deps_met(wf) ==
    LET completed_ids == {wf.steps[k].step_id : k \in
                            {j \in 1..Len(wf.steps) : wf.steps[j].status = COMPLETED}}
        all_idx == [k \in 1..Len(wf.steps) |-> k]
    IN  SelectSeq(all_idx, LAMBDA k :
            \A dep \in wf.steps[k].depends_on : dep \in completed_ids)

\* A variant of get_ready_steps that returns the ready steps last first.
get_ready_steps_reversed(wf) ==
    LET completed_ids == {wf.steps[k].step_id : k \in
                            {j \in 1..Len(wf.steps) : wf.steps[j].status = COMPLETED}}
        all_idx == [k \in 1..Len(wf.steps) |-> k]
        ready == SelectSeq(all_idx, LAMBDA k :
                    /\ wf.steps[k].status = PENDING
                    /\ \A dep \in wf.steps[k].depends_on : dep \in completed_ids)
    IN  [n \in 1..Len(ready) |-> ready[Len(ready) + 1 - n]]

\* A variant of get_ready_steps that does not look at depends_on.
get_pending_steps(wf) ==
    LET all_idx == [k \in 1..Len(wf.steps) |-> k]
    IN  SelectSeq(all_idx, LAMBDA k : wf.steps[k].status = PENDING)

\* Workflow.get_ready_steps: the indices into workflow.steps, in list order.
get_ready_steps(wf) ==
    LET completed_ids == {wf.steps[k].step_id : k \in
                            {j \in 1..Len(wf.steps) : wf.steps[j].status = COMPLETED}}
        all_idx == [k \in 1..Len(wf.steps) |-> k]
    IN  SelectSeq(all_idx, LAMBDA k :
            /\ wf.steps[k].status = PENDING
            /\ \A dep \in wf.steps[k].depends_on : dep \in completed_ids)

\* Workflow.is_complete
is_complete(wf) == \A k \in 1..Len(wf.steps) : wf.steps[k].status = COMPLETED

\* Session.update_context
update_context(sess, new_context) ==
    [sess EXCEPT !.context = DictUpdate(sess.context, new_context)]

\* Session.add_history (the timestamp is left out)
add_history(sess, event_type, data) ==
    [sess EXCEPT !.history = Append(sess.history, [type |-> event_type, data |-> data])]

(***************************************************************************)
(* The inputs: the steps a workflow is made of and the way they depend on *)
(* each other.                                                             *)
(***************************************************************************)
(***************************************************************************)
(* router/classifier.py.  The pattern and keyword tables hold the entries *)
(* that the phrases of the model's inputs can hit, in the source's order. *)
(***************************************************************************)
\* The unit words UNIT_PATTERNS matches.
UNIT_PATTERNS == {"kg", "lb", "lbs", "lbm"}

AMBIGUOUS_TERMS == <<"specific weight", "weight", "lb", "gamma", "density", "sample">>

DOMAIN_KEYWORDS ==
    <<[domain |-> "physics.fluids", keywords |-> {"water", "density", "specific weight"}],
      [domain |-> "experiment", keywords |-> {"hypothesis", "irb"}],
      [domain |-> "survey", keywords |-> {"sample size"}],
      [domain |-> "analysis", keywords |-> {"mean"}]>>

\* The values of the Domain enum.
Domain == {"physics", "chemistry", "math", "code", "general", "experiment",
           "survey", "project", "operations", "analysis"}

NoHint == "None"

\* A variant of extract_features that finds no unit.
extract_features_without_units(text) ==
    [units_found |-> {},
     has_equations |-> Contains(text, "="),
     ambiguous_terms |-> SelectSeq(AMBIGUOUS_TERMS, LAMBDA t : Contains(text, t)),
     domain_scores |->
        [k \in 1..Len(DOMAIN_KEYWORDS) |->
            Cardinality({kw \in DOMAIN_KEYWORDS[k].keywords : Contains(text, kw)})]]

\* extract_features: the features classify_task reads.
extract_features(text) ==
    [units_found |-> {u \in UNIT_PATTERNS : HasToken(text, u)},
     has_equations |-> Contains(text, "="),
     ambiguous_terms |-> SelectSeq(AMBIGUOUS_TERMS, LAMBDA t : Contains(text, t)),
     domain_scores |->
        [k \in 1..Len(DOMAIN_KEYWORDS) |->
            Cardinality({kw \in DOMAIN_KEYWORDS[k].keywords : Contains(text, kw)})]]

\* max(domain_scores, key=domain_scores.get): the first domain, in the
\* table's order, with the highest score; "general" if no keyword hits.
BestDomain(scores) ==
    LET hit == {k \in 1..Len(scores) : scores[k] > 0}
        best == {k \in hit : \A j \in hit : scores[j] <= scores[k]}
    IN  IF hit = {} THEN "general"
        ELSE DOMAIN_KEYWORDS[CHOOSE k \in best : \A j \in best : k <= j].domain

\* domain_str.split(".", 1) if "." in domain_str, else no subdomain.
SplitDomain(domain_str) ==
    CASE domain_str = "physics.fluids" -> [main |-> "physics", sub |-> "fluids"]
      [] domain_str = "physics.fluids.pipes" -> [main |-> "physics", sub |-> "fluids.pipes"]
      [] domain_str = "biology.cells" -> [main |-> "biology", sub |-> "cells"]
      [] OTHER -> [main |-> domain_str, sub |-> "None"]

\* if request.domain_hint: the hint is neither None nor the empty string.
HintGiven(req) == req.domain_hint \notin {NoHint, ""}

\* A variant of classify_task whose confidence depends on how many requests
\* were classified before.
classify_task_counting(req) ==
    TaskSpec(req.user_input, <<"schema_gate">>, <<>>)
    @@ [request_id |-> req.request_id, domain |-> "general", subdomain |-> "None",
        needs_units |-> FALSE, has_equations |-> FALSE, risk_level |-> "low",
        confidence |-> IF req.request_id = 1 THEN "0.8" ELSE "1.0"]

\* classify_task(request)
classify_task(req) ==
    LET features == extract_features(req.user_input)
        domain_str == IF HintGiven(req) THEN req.domain_hint
                      ELSE BestDomain(features.domain_scores)
        main_domain == SplitDomain(domain_str).main
        subdomain == SplitDomain(domain_str).sub
        n_amb == Len(features.ambiguous_terms)
        required_gates ==
            <<"schema_gate">>
            \o (IF features.units_found # {} THEN <<"unit_consistency_gate">> ELSE <<>>)
            \o (IF n_amb > 0 THEN <<"ambiguity_gate">> ELSE <<>>)
            \o (IF main_domain = "experiment" THEN <<"experiment_safety_gate">> ELSE <<>>)
        selected_kernels ==
            (IF features.units_found # {} THEN <<"unit_converter_v1">> ELSE <<>>)
            \o (CASE main_domain = "physics" /\ subdomain = "fluids" -> <<"fluids_statics_v1">>
                  [] main_domain = "experiment" -> <<"experiment_design_v1">>
                  [] main_domain = "survey" -> <<"statistics_v1">>
                  [] main_domain = "analysis" -> <<"statistics_v1", "data_summary_v1">>
                  [] OTHER -> <<>>)
    IN  TaskSpec(req.user_input, required_gates, selected_kernels)
        @@ [request_id |-> req.request_id,
            domain |-> IF main_domain \in Domain THEN main_domain ELSE "general",
            subdomain |-> subdomain,
            needs_units |-> features.units_found # {},
            has_equations |-> features.has_equations,
            risk_level |-> IF n_amb > 1 THEN "high" ELSE IF n_amb = 1 THEN "medium" ELSE "low",
            confidence |-> IF HintGiven(req) THEN "1.0" ELSE "0.8"]

\* policies/unit_disambiguation.yaml and registry/quantities.json as the
\* tests and the documentation describe them: the unit "lb" asks for
\* clarification, "gamma" is disallowed without a disambiguator and the
\* alias "specific weight" collides; policies/lab_experiment.yaml requires
\* IRB approval for human subjects.
BasePolicy ==
    [ambiguous_units |-> <<[unit |-> "lb", question |-> "Please clarify the unit 'lb'"]>>,
     disallowed |-> <<"gamma">>,
     collisions |-> <<"specific weight">>,
     irb_approval_required |-> TRUE]

\* Tables of another version: "lb" and "lbs" ask the same question, and
\* "gal" is an ambiguous unit too.
WidePolicy ==
    [ambiguous_units |-> <<[unit |-> "lb", question |-> "Pound-mass or pound-force?"],
                           [unit |-> "lbs", question |-> "Pound-mass or pound-force?"],
                           [unit |-> "gal", question |-> "US or imperial gallon?"]>>,
     disallowed |-> <<"gamma">>,
     collisions |-> <<"specific weight">>,
     irb_approval_required |-> TRUE]

Policies == {BasePolicy, WidePolicy}

\* No /task request was served yet.
NoTask == [served |-> 0]

SpecOk == TaskSpec({"mean"}, <<"schema_gate">>, <<"statistics_v1", "data_summary_v1">>)

SpecWarn == TaskSpec({"sample size 5"}, <<"schema_gate", "experiment_safety_gate">>,
                     <<"experiment_design_v1">>)

SpecClarify == TaskSpec({"specific weight", "lb"},
                        <<"schema_gate", "unit_consistency_gate", "ambiguity_gate">>,
                        <<"unit_converter_v1", "fluids_statics_v1">>)

SpecReject == TaskSpec({"save", "secret"}, <<"file_write_gate">>, <<"project_mgmt_v1">>)

SpecNoKernel == TaskSpec({"hello"}, <<"schema_gate">>, <<>>)

SpecUnknownKernel == TaskSpec({"water"}, <<"schema_gate">>,
                              <<"fluids_statics_v1", "statistics_v1">>)

\* required_gates names an identifier the GATES registry does not hold.
SpecUnregisteredGate == TaskSpec({"mean"}, <<"schema_gate", "custom_gate">>,
                                 <<"statistics_v1">>)

\* "gal" asks for clarification under one version of the unit policy only.
SpecGallon == TaskSpec({"gal"}, <<"schema_gate", "unit_consistency_gate">>,
                       <<"statistics_v1">>)

\* required_gates names no identifier of the GATES registry.
SpecOnlyUnregistered == TaskSpec({"mean"}, <<"custom_gate", "plugin_gate">>,
                                 <<"statistics_v1">>)

\* <<"sensitive" in step_id, spec>>: one step for each way run_step can end.
GraphPool == {<<FALSE, SpecOk>>, <<TRUE, SpecOk>>, <<FALSE, SpecClarify>>,
              <<FALSE, NoSpec>>}

\* Every kind of step.
StepPool == {<<FALSE, SpecOk>>, <<TRUE, SpecOk>>, <<FALSE, SpecWarn>>,
             <<FALSE, SpecClarify>>, <<TRUE, SpecClarify>>, <<FALSE, SpecReject>>,
             <<FALSE, SpecNoKernel>>, <<FALSE, SpecUnknownKernel>>,
             <<FALSE, SpecUnregisteredGate>>,
             <<FALSE, NoSpec>>, <<TRUE, NoSpec>>}

\* depends_on of step i of n: nothing, the previous step, an id no step has,
\* itself, every other step.
DepChoices(i, n) == {{}, {i - 1}, {MissingId}, {i}, (1..n) \ {i}}

\* depends_on as the workflow builder sets it.
ChainDeps(i, n) == {IF i = 1 THEN {} ELSE {i - 1}}

UserIds == {"default_user", "admin_1"}

\* What kernel.execute returns: success with a mapping, success with a
\* scalar, success = False.
KernelOutcomes == {"ok_dict", "ok_value", "fail"}

KernelResult(kout) ==
    IF kout = "ok_dict"
    THEN [kind |-> "result", is_dict |-> TRUE, value |-> [EmptyDict EXCEPT !["mean"] = "3.0"]]
    ELSE [kind |-> "result", is_dict |-> FALSE, value |-> EmptyDict]

\* The call of run_step's try block that raises, if any.
BodyFaults == {"none", "check_access", "run_gates", "log_audit", "execute"}

PostFaults == {"none", "add_history", "log_audit", "update_context"}

\* The answer lists a client posts to /session/{id}/answer.
AnswerLists == {<<>>,
                <<[question_id |-> "q1", answer |-> "a"]>>,
                <<[question_id |-> "q1", answer |-> "a"], [question_id |-> "q1", answer |-> "b"]>>,
                <<[question_id |-> "q2", answer |-> "b"], [question_id |-> "q1", answer |-> "a"]>>}

SeedContext == [EmptyDict EXCEPT !["seed"] = "7"]

WorkflowContexts == {EmptyDict, SeedContext}

\* The state after the workflow and the session were constructed and the
\* workflow was stored (gateway/main.py:272-276).
Constructed(n, pool, users, contexts, chain) ==
    /\ \E deps \in [1..n -> SUBSET (0..n)] :
          /\ \A i \in 1..n :
                deps[i] \in (IF chain THEN ChainDeps(i, n) ELSE DepChoices(i, n))
          /\ \E pick \in [1..n -> pool], ctx \in contexts :
                workflow = [workflow_id |-> WfId,
                            steps |-> [i \in 1..n |->
                                         WorkflowStep(i, pick[i][1], pick[i][2], deps[i])],
                            context |-> ctx,
                            status |-> PENDING]
    /\ \E u \in users :
          session = [user_id |-> u, active_workflow_id |-> NoWorkflowId,
                     context |-> EmptyDict, history |-> <<>>]
    /\ active_workflows = {WfId}
    /\ audit = <<>>
    /\ request = [kind |-> "none", answers |-> <<>>]
    /\ pc = "idle"
    /\ ready_steps = <<>>
    /\ idx = 0
    /\ progress_made = FALSE
    /\ raised = FALSE
    /\ started = [i \in 1..n |-> 0]
    /\ kernel_calls = [i \in 1..n |-> 0]
    /\ calls = 0
    /\ task = NoTask

\* Workflows of any dependency shape.
Init ==
    /\ Constructed(NumSteps, GraphPool, {"default_user"}, {SeedContext}, FALSE)
    /\ policy = BasePolicy

\* Chains of steps of every kind, run by either kind of user.
InitChain ==
    /\ Constructed(ChainSteps, StepPool, UserIds, WorkflowContexts, TRUE)
    /\ policy = BasePolicy

(***************************************************************************)
(* runtime/orchestrator.py: Orchestrator.run_workflow.                    *)
(***************************************************************************)
\* Lines 188-189: what run_workflow does to the session before its loop.
EnterRunWorkflow(sess, wf) ==
    update_context([sess EXCEPT !.active_workflow_id = wf.workflow_id], wf.context)

\* Lines 197-208: the status run_workflow gives a workflow with no ready step.
ResolveStatus(wf) ==
    LET pending == {k \in 1..Len(wf.steps) : wf.steps[k].status \in {PENDING, ACTIVE}}
        failed == {k \in 1..Len(wf.steps) : wf.steps[k].status = FAILED}
    IN  IF pending = {} THEN COMPLETED
        ELSE IF failed # {} THEN FAILED
        ELSE BLOCKED

\* A caller invokes orchestrator.run_workflow(workflow, session): the first
\* time (as submit_workflow does) or again on the same objects.
RunWorkflow ==
    /\ pc \in {"idle", "returned"}
    /\ calls < MaxCalls
    /\ calls' = calls + 1
    /\ request' = [kind |-> "run_workflow", answers |-> <<>>]
    /\ session' = EnterRunWorkflow(session, workflow)
    /\ pc' = "loop"
    /\ UNCHANGED <<workflow, active_workflows, audit, ready_steps, idx,
                   progress_made, raised, started, kernel_calls>>
    /\ UNCHANGED <<policy, task>>

\* Lines 191-209: top of the while loop.
GetReady ==
    /\ pc = "loop"
    /\ LET ready == get_ready_steps(workflow)
       IN  IF ready = <<>>
           THEN /\ workflow' = [workflow EXCEPT !.status = ResolveStatus(workflow)]
                /\ pc' = "returned"
                /\ UNCHANGED <<ready_steps, idx, progress_made>>
           ELSE /\ ready_steps' = ready
                /\ idx' = 1
                /\ progress_made' = FALSE
                /\ pc' = "for"
                /\ UNCHANGED workflow
    /\ UNCHANGED <<session, active_workflows, audit, request, raised, started,
                   kernel_calls, calls>>
    /\ UNCHANGED <<policy, task>>

\* Lines 213-214 and 222-224: the for loop takes the next ready step and
\* calls run_step (whose first statement sets ACTIVE, line 32), or the batch
\* is exhausted.
ForStep ==
    /\ pc = "for"
    /\ IF idx <= Len(ready_steps)
       THEN /\ workflow' = [workflow EXCEPT !.steps[ready_steps[idx]].status = ACTIVE]
            /\ started' = [started EXCEPT ![ready_steps[idx]] = @ + 1]
            /\ raised' = FALSE
            /\ pc' = "step"
       ELSE /\ pc' = IF progress_made THEN "loop" ELSE "returned"
            /\ UNCHANGED <<workflow, started, raised>>
    /\ UNCHANGED <<session, active_workflows, audit, request, ready_steps, idx,
                   progress_made, kernel_calls, calls>>
    /\ UNCHANGED <<policy, task>>

\* A variant of AfterStep that goes on with the batch after a FAILED step.
AfterStepContinue ==
    /\ pc = "ret"
    /\ progress_made' = (progress_made \/ workflow.steps[ready_steps[idx]].status = COMPLETED)
    /\ idx' = idx + 1
    /\ pc' = "for"
    /\ UNCHANGED <<workflow, session, active_workflows, audit, request, ready_steps,
                   raised, started, kernel_calls, calls>>
    /\ UNCHANGED <<policy, task>>

\* Lines 215-220: run_workflow looks at the status run_step left.
AfterStep ==
    /\ pc = "ret"
    /\ LET st == workflow.steps[ready_steps[idx]].status
       IN  IF st = COMPLETED
           THEN /\ progress_made' = TRUE
                /\ idx' = idx + 1
                /\ pc' = "for"
                /\ UNCHANGED workflow
           ELSE IF st = FAILED
           THEN /\ workflow' = [workflow EXCEPT !.status = FAILED]
                /\ pc' = "returned"
                /\ UNCHANGED <<progress_made, idx>>
           ELSE /\ idx' = idx + 1
                /\ pc' = "for"
                /\ UNCHANGED <<workflow, progress_made>>
    /\ UNCHANGED <<session, active_workflows, audit, request, ready_steps, raised,
                   started, kernel_calls, calls>>
    /\ UNCHANGED <<policy, task>>

(***************************************************************************)
(* runtime/orchestrator.py: Orchestrator.run_step.                        *)
(***************************************************************************)
\* A variant of dispatch_kernel that goes through the candidates and takes
\* the first one the registry holds.
first_registered_kernel(selected_kernels) ==
    LET registered == SelectSeq(selected_kernels, LAMBDA k : k \in KERNEL_REGISTRY)
    IN  IF registered # <<>> THEN registered[1] ELSE selected_kernels[1]

\* Line 101: kernel_id = spec.selected_kernels[0]
dispatch_kernel(selected_kernels) == selected_kernels[1]

\* Lines 176-179: what the except clause stores in step.output.
ErrorOutput(msg) == [kind |-> "error", error |-> msg, traceback |-> TRUE]

\* Line 67: one entry "<gate_id>: <reasons>" per blocking decision.
BlockReasons(blocking) ==
    [k \in 1..Len(blocking) |->
        [gate_id |-> blocking[k].gate_id, reasons |-> blocking[k].reasons]]

RECURSIVE Flatten(_)
\* Line 84: [q for d in blocking for q in d.clarifying_questions]
Flatten(seqs) == IF seqs = <<>> THEN <<>> ELSE Head(seqs) \o Flatten(Tail(seqs))

Questions(blocking) ==
    Flatten([k \in 1..Len(blocking) |-> blocking[k].clarifying_questions])

GateIds(decisions) == [k \in 1..Len(decisions) |-> decisions[k].gate_id]

\* Lines 39-47.
AccessAudit(user_id, step) ==
    [actor_id |-> user_id, action |-> "step_execution_attempt",
     resource_id |-> step.step_id, status |-> "BLOCKED",
     details |-> [reason |-> "Access Denied"],
     gates_passed |-> <<>>, policy_violations |-> <<"access_control">>]

\* Lines 70-78.
GateAudit(user_id, step, gate_decisions, blocking) ==
    [actor_id |-> user_id, action |-> "step_execution_attempt",
     resource_id |-> step.step_id, status |-> "BLOCKED",
     details |-> [reason |-> "Gate Failure", gates |-> BlockReasons(blocking)],
     gates_passed |-> GateIds(SelectSeq(gate_decisions, LAMBDA g : ~is_blocking(g))),
     policy_violations |-> <<>>]

\* Lines 149-160.
SuccessAudit(sess, step, kernel_id, gate_decisions) ==
    [actor_id |-> sess.user_id, action |-> "step_execution",
     resource_id |-> step.step_id, status |-> "SUCCESS",
     details |-> [kernel |-> kernel_id, workflow_id |-> sess.active_workflow_id],
     gates_passed |-> GateIds(gate_decisions), policy_violations |-> <<>>]

\* The result of lines 34-139 and 168-179 for one step: the fields run_step
\* leaves in the step, what it emits, and whether it goes on to line 140
\* (next = "post") or returns (next = "ret").  fault names the call that
\* raises, kout what kernel.execute returns.
StepOutcome(step, sess, fault, kout) ==
    LET user_id == sess.user_id
        Keep == [status |-> step.status, output |-> step.output, error |-> step.error,
                 audit |-> <<>>, history |-> <<>>, kernel_called |-> FALSE,
                 raised |-> FALSE, next |-> "ret"]
        Raise(msg) == [Keep EXCEPT !.status = FAILED, !.output = ErrorOutput(msg),
                                   !.raised = TRUE]
        gate_decisions == run_gates(step.spec)
        blocking == get_blocking_decisions(gate_decisions)
        questions == Questions(blocking)
        kernel_id == dispatch_kernel(step.spec.selected_kernels)
    IN  IF fault = "check_access" THEN Raise("check_access raised")
        ELSE IF ~check_access(user_id, step, "execute")
        THEN IF fault = "log_audit" THEN Raise("log_audit raised")
             ELSE [Keep EXCEPT !.status = BLOCKED,
                               !.error = [kind |-> "compliance",
                                          msg |-> "Compliance violation: Access Denied"],
                               !.audit = <<AccessAudit(user_id, step)>>]
        ELSE IF step.spec.none THEN Raise("Step has no TaskSpec")
        ELSE IF fault = "run_gates" /\ gate_decisions # <<>> THEN Raise("gate raised")
        ELSE IF blocking # <<>>
        THEN IF fault = "log_audit" THEN Raise("log_audit raised")
             ELSE [Keep EXCEPT !.status = BLOCKED,
                               !.error = [kind |-> "gates",
                                          reasons |-> BlockReasons(blocking)],
                               !.output = IF questions # <<>>
                                          THEN [kind |-> "clarification_needed",
                                                questions |-> questions]
                                          ELSE step.output,
                               !.audit = <<GateAudit(user_id, step, gate_decisions, blocking)>>]
        ELSE IF step.spec.selected_kernels = <<>> THEN Raise("No kernel selected")
        ELSE IF ~get_kernel(kernel_id) THEN Raise("Kernel not found in registry")
        ELSE IF fault = "execute"
        THEN [Raise("kernel raised") EXCEPT !.kernel_called = TRUE]
        ELSE IF kout # "fail"
        THEN [Keep EXCEPT !.status = COMPLETED, !.output = KernelResult(kout),
                          !.kernel_called = TRUE, !.next = "post"]
        ELSE [Keep EXCEPT !.status = FAILED,
                          !.output = [kind |-> "error", error |-> "kernel error"],
                          !.history = <<[type |-> "step_failed",
                                         data |-> [step_id |-> step.step_id,
                                                   error |-> "kernel error"]]>>,
                          !.kernel_called = TRUE]

\* Lines 34-139, 168-181.
RunStepBody(faults, kouts) ==
    /\ pc = "step"
    /\ \E fault \in faults, kout \in kouts :
          LET i == ready_steps[idx]
              o == StepOutcome(workflow.steps[i], session, fault, kout)
          IN  /\ workflow' = [workflow EXCEPT !.steps[i].status = o.status,
                                              !.steps[i].output = o.output,
                                              !.steps[i].error = o.error]
              /\ session' = [session EXCEPT !.history = @ \o o.history]
              /\ audit' = audit \o o.audit
              /\ kernel_calls' = [kernel_calls EXCEPT ![i] = @ + (IF o.kernel_called THEN 1 ELSE 0)]
              /\ raised' = o.raised
              /\ pc' = o.next
    /\ UNCHANGED <<active_workflows, request, ready_steps, idx, progress_made,
                   started, calls>>
    /\ UNCHANGED <<policy, task>>

\* Lines 141-166 followed by 176-181: the calls run_step makes after it has
\* set COMPLETED.  A call that raises sends control to the except clause.
PostOutcome(step, sess, fault) ==
    LET kernel_id == dispatch_kernel(step.spec.selected_kernels)
        sess1 == add_history(sess, "step_complete",
                             [step_id |-> step.step_id, kernel |-> kernel_id,
                              result_summary |-> step.output.value])
        rec == SuccessAudit(sess1, step, kernel_id, run_gates(step.spec))
        sess2 == IF step.output.is_dict THEN update_context(sess1, step.output.value)
                 ELSE sess1
        Raise(s, a) == [status |-> FAILED, output |-> ErrorOutput("collaborator raised"),
                        session |-> s, audit |-> a, raised |-> TRUE]
    IN  IF fault = "add_history" THEN Raise(sess, <<>>)
        ELSE IF fault = "log_audit" THEN Raise(sess1, <<>>)
        ELSE IF fault = "update_context" /\ step.output.is_dict THEN Raise(sess1, <<rec>>)
        ELSE [status |-> step.status, output |-> step.output,
              session |-> sess2, audit |-> <<rec>>, raised |-> FALSE]

RunStepPost(faults) ==
    /\ pc = "post"
    /\ \E fault \in faults :
          LET i == ready_steps[idx]
              o == PostOutcome(workflow.steps[i], session, fault)
          IN  /\ workflow' = [workflow EXCEPT !.steps[i].status = o.status,
                                              !.steps[i].output = o.output]
              /\ session' = o.session
              /\ audit' = audit \o o.audit
              /\ raised' = o.raised
    /\ pc' = "ret"
    /\ UNCHANGED <<active_workflows, request, ready_steps, idx, progress_made,
                   started, kernel_calls, calls>>
    /\ UNCHANGED <<policy, task>>

(***************************************************************************)
(* gateway/main.py: answer_clarification.                                 *)
(***************************************************************************)
RECURSIVE RecordAnswersKeepFirst(_, _)
\* A variant of RecordAnswers that keeps an answer already in the context.
RecordAnswersKeepFirst(sess, answers) ==
    IF answers = <<>> THEN sess
    ELSE LET ans == Head(answers)
             key == AnswerKey(ans.question_id)
             s1 == IF sess.context[key] # Absent THEN sess
                   ELSE [sess EXCEPT !.context = DictSet(@, key, ans.answer)]
             s2 == add_history(s1, "user_clarification",
                               [question |-> ans.question_id, answer |-> ans.answer])
         IN  RecordAnswersKeepFirst(s2, Tail(answers))

RECURSIVE RecordAnswers(_, _)
\* Lines 344-347.
RecordAnswers(sess, answers) ==
    IF answers = <<>> THEN sess
    ELSE LET ans == Head(answers)
             s1 == [sess EXCEPT !.context = DictSet(@, AnswerKey(ans.question_id), ans.answer)]
             s2 == add_history(s1, "user_clarification",
                               [question |-> ans.question_id, answer |-> ans.answer])
         IN  RecordAnswers(s2, Tail(answers))

\* A variant of ResetBlocked that resets every step that is not PENDING.
ResetEveryStep(steps) ==
    [k \in 1..Len(steps) |-> [steps[k] EXCEPT !.status = PENDING]]

\* A variant of ResetBlocked that also clears the error of the steps it
\* resets.
ResetBlockedAndError(steps) ==
    [k \in 1..Len(steps) |->
        IF steps[k].status = BLOCKED
        THEN [steps[k] EXCEPT !.status = PENDING, !.error = NoError]
        ELSE steps[k]]

\* Lines 371-373.
ResetBlocked(steps) ==
    [k \in 1..Len(steps) |->
        IF steps[k].status = BLOCKED THEN [steps[k] EXCEPT !.status = PENDING]
        ELSE steps[k]]

\* A variant of AnswerClarification that looks for the active workflow
\* before it records the answers.
AnswerClarificationCheckFirst(lists) ==
    /\ pc = "returned"
    /\ calls < MaxCalls
    /\ calls' = calls + 1
    /\ \E answers \in lists :
          LET sess1 == RecordAnswers(session, answers)
          IN  /\ request' = [kind |-> "answer_clarification", answers |-> answers]
              /\ IF session.active_workflow_id = NoWorkflowId
                    \/ session.active_workflow_id \notin active_workflows
                 THEN UNCHANGED <<session, workflow, pc>>
                 ELSE LET wf1 == [workflow EXCEPT
                                    !.context = DictUpdate(@, sess1.context),
                                    !.steps = ResetBlocked(@)]
                      IN  /\ workflow' = wf1
                          /\ session' = EnterRunWorkflow(sess1, wf1)
                          /\ pc' = "loop"
    /\ UNCHANGED <<active_workflows, audit, ready_steps, idx, progress_made,
                   raised, started, kernel_calls>>
    /\ UNCHANGED <<policy, task>>

\* Lines 336-378, up to the first statement of run_workflow's loop.  The
\* session is in `sessions`; a request without a resolvable active workflow
\* ends with an HTTP error after the answers were recorded.
AnswerClarification(lists) ==
    /\ pc = "returned"
    /\ calls < MaxCalls
    /\ calls' = calls + 1
    /\ \E answers \in lists :
          LET sess1 == RecordAnswers(session, answers)
          IN  /\ request' = [kind |-> "answer_clarification", answers |-> answers]
              /\ IF sess1.active_workflow_id = NoWorkflowId
                    \/ sess1.active_workflow_id \notin active_workflows
                 THEN /\ session' = sess1
                      /\ UNCHANGED <<workflow, pc>>
                 ELSE LET wf1 == [workflow EXCEPT
                                    !.context = DictUpdate(@, sess1.context),
                                    !.steps = ResetBlocked(@)]
                      IN  /\ workflow' = wf1
                          /\ session' = EnterRunWorkflow(sess1, wf1)
                          /\ pc' = "loop"
    /\ UNCHANGED <<active_workflows, audit, ready_steps, idx, progress_made,
                   raised, started, kernel_calls>>
    /\ UNCHANGED <<policy, task>>

\* Lines 336-337: the session id of the request is not in `sessions`.
AnswerUnknownSession(lists) ==
    /\ pc = "returned"
    /\ calls < MaxCalls
    /\ calls' = calls + 1
    /\ \E answers \in lists :
          request' = [kind |-> "answer_unknown_session", answers |-> answers]
    /\ UNCHANGED <<workflow, session, active_workflows, audit, pc, ready_steps, idx,
                   progress_made, raised, started, kernel_calls, policy, task>>

\* validator/loader.py reads the policy files on every call of a gate: the
\* files may be another version by the next request.
PolicyChange ==
    /\ pc = "returned"
    /\ \E p \in Policies \ {policy} : policy' = p
    /\ UNCHANGED <<workflow, session, active_workflows, audit, request, pc, ready_steps,
                   idx, progress_made, raised, started, kernel_calls, calls, task>>

(***************************************************************************)
(* gateway/main.py: submit_task.                                          *)
(***************************************************************************)
\* The texts a client posts to /task, as the sets of phrases they hold.
TaskInputs ==
    {{"<whitespace>"}, {"hello"}, {"kg"}, {"lb"}, {"lb", "lbs"}, {"gal"},
     {"specific weight"}, {"specific weight", "lb"}, {"density", "kg"},
     {"gamma"}, {"mean"}, {"participant"},
     {"hypothesis", "participant"}, {"hypothesis", "participant", "irb"},
     {"hypothesis", "sample size 5"}}

DomainHints == {NoHint, "experiment", "physics.fluids"}

\* The call of submit_task's try block that raises, if any.
TaskFaults == {"none", "log_audit"}

\* Lines 112-125: the questions of the blocking decisions, one entry per
\* question, with the id f"{gate_id}_{i}".
RECURSIVE AllQuestions(_)
AllQuestions(blocking) ==
    IF blocking = <<>> THEN <<>>
    ELSE LET g == Head(blocking)
         IN  [i \in 1..Len(g.clarifying_questions) |->
                 [id |-> <<g.gate_id, i - 1>>,
                  prompt |-> g.clarifying_questions[i],
                  type |-> IF g.required_fields # <<>> THEN "choice" ELSE "text",
                  required |-> TRUE]]
             \o AllQuestions(Tail(blocking))

NoClarify == [reason_codes |-> <<>>, questions |-> <<>>, blocking_gates |-> <<>>,
              required_fields |-> <<>>]

\* Lines 141-151.
ClarifyPayload(spec, blocking) ==
    [reason_codes |-> Dedupe(Flatten([k \in 1..Len(blocking) |-> blocking[k].reasons])),
     questions |-> AllQuestions(blocking),
     blocking_gates |-> GateIds(blocking),
     required_fields |->
        Dedupe(Flatten([k \in 1..Len(blocking) |-> blocking[k].required_fields]))]

\* Lines 128-139.
TaskAudit(request_id, gate_results, blocking) ==
    [actor_id |-> "api_user", action |-> "task_submission",
     resource_id |-> request_id, status |-> "BLOCKED",
     details |-> [reason |-> blocking[1].gate_id],
     gates_passed |-> GateIds(SelectSeq(gate_results, LAMBDA g : ~is_blocking(g))),
     policy_violations |-> GateIds(blocking)]

\* Lines 96-183: the response to a request, the audit records emitted and
\* the TaskSpec the request was classified into.
TaskOutcome(req, fault) ==
    LET spec == classify_task(req)
        gate_results == run_gates(spec)
        blocking == get_blocking_decisions(gate_results)
        NoMessage == [gate_id |-> "None", reasons |-> <<>>]
    IN  IF blocking # <<>>
        THEN IF fault = "log_audit"
             THEN [spec |-> spec, audit |-> <<>>,
                   response |-> [request_id |-> req.request_id, status |-> "error",
                                 spec |-> NoSpec, gate_decisions |-> <<>>,
                                 clarify |-> NoClarify, message |-> NoMessage]]
             ELSE [spec |-> spec,
                   audit |-> <<TaskAudit(req.request_id, gate_results, blocking)>>,
                   response |->
                      [request_id |-> req.request_id,
                       status |-> IF blocking[1].decision = CLARIFY THEN "clarify"
                                  ELSE "reject",
                       spec |-> spec, gate_decisions |-> gate_results,
                       clarify |-> ClarifyPayload(spec, blocking),
                       message |-> [gate_id |-> blocking[1].gate_id,
                                    reasons |-> blocking[1].reasons]]]
        ELSE [spec |-> spec, audit |-> <<>>,
              response |-> [request_id |-> req.request_id, status |-> "success",
                            spec |-> spec, gate_decisions |-> gate_results,
                            clarify |-> NoClarify, message |-> NoMessage]]

\* POST /task.  The request id is fresh (uuid4).  task.spec is what
\* classify_task returned for the request, task.first what the first
\* request was and what classify_task returned for it.
SubmitTask ==
    /\ task.served < MaxTasks
    /\ \E user_input \in TaskInputs, hint \in DomainHints, fault \in TaskFaults :
          LET req == [request_id |-> task.served + 1, user_input |-> user_input,
                      domain_hint |-> hint]
              o == TaskOutcome(req, fault)
          IN  /\ task' = [served |-> task.served + 1,
                          request |-> req,
                          spec |-> o.spec,
                          response |-> o.response,
                          first |-> IF task.served = 0
                                    THEN [request |-> req, spec |-> o.spec]
                                    ELSE task.first]
              /\ audit' = audit \o o.audit
    /\ UNCHANGED <<workflow, session, active_workflows, request, pc, ready_steps, idx,
                   progress_made, raised, started, kernel_calls, calls, policy>>

(***************************************************************************)
(* router/workflow_builder.py and Workflow.add_step (models/workflow.py). *)
(***************************************************************************)
\* Workflow(workflow_id=..., context=...): no steps, status PENDING.
Workflow(workflow_id, context) ==
    [workflow_id |-> workflow_id, steps |-> <<>>, context |-> context,
     status |-> PENDING]

\* A variant of add_step that does not look for the step_id in the list.
add_step_unchecked(wf, step) ==
    [raised |-> FALSE, workflow |-> [wf EXCEPT !.steps = Append(wf.steps, step)]]

\* Workflow.add_step: raised tells whether ValueError was raised, workflow
\* is the workflow after the call.
add_step(wf, step) ==
    IF \E k \in 1..Len(wf.steps) : wf.steps[k].step_id = step.step_id
    THEN [raised |-> TRUE, workflow |-> wf]
    ELSE [raised |-> FALSE, workflow |-> [wf EXCEPT !.steps = Append(wf.steps, step)]]

\* The texts a client asks a workflow for: how the text is punctuated
\* ("1. a 2. b", "a, then b", or neither) and the phrases of each part,
\* {} for a part with nothing but white space.
BuildInputs ==
    {[form |-> "plain", parts |-> <<{"mean"}>>],
     [form |-> "plain", parts |-> <<{}>>],
     [form |-> "numbered", parts |-> <<{"mean"}>>],
     [form |-> "numbered", parts |-> <<{}, {"hypothesis"}, {"mean"}>>],
     [form |-> "numbered", parts |-> <<{"specific weight"}, {"lb"}, {"mean"}>>],
     [form |-> "sequence", parts |-> <<{"kg"}, {"mean"}>>],
     [form |-> "sequence", parts |-> <<{"kg"}, {}, {"mean"}>>]}

\* WorkflowBuilder._decompose_request: the numbered parts that are not
\* empty if there are several; else the parts between sequence keywords
\* if there are several; else the whole text.
_decompose_request(text) ==
    LET numbered_steps == SelectSeq(text.parts, LAMBDA part : part # {})
    IN  IF text.form = "numbered" /\ Len(numbered_steps) > 1 THEN numbered_steps
        ELSE IF text.form = "sequence" /\ Len(text.parts) > 1 THEN text.parts
        ELSE <<UNION {text.parts[k] : k \in 1..Len(text.parts)}>>

\* What uuid.uuid4().hex[:6] can return.
HexPool == {"a1b2c3", "d4e5f6"}

\* f"step_{i + 1}_{uuid.uuid4().hex[:6]}", n being i + 1.
StepIdStr(n, hex) ==
    CASE n = 1 /\ hex = "a1b2c3" -> "step_1_a1b2c3"
      [] n = 1 /\ hex = "d4e5f6" -> "step_1_d4e5f6"
      [] n = 2 /\ hex = "a1b2c3" -> "step_2_a1b2c3"
      [] n = 2 /\ hex = "d4e5f6" -> "step_2_d4e5f6"
      [] n = 3 /\ hex = "a1b2c3" -> "step_3_a1b2c3"
      [] n = 3 /\ hex = "d4e5f6" -> "step_3_d4e5f6"

\* previous_step_id before the first step.
NoPrevious == "None"

\* A variant of StepDependsOn: no step waits for another.
StepDependsOnNothing(previous_step_id) == {}

\* depends_on=[previous_step_id] if previous_step_id else []
StepDependsOn(previous_step_id) ==
    IF previous_step_id # NoPrevious THEN {previous_step_id} ELSE {}

\* The call that raises while a workflow is built, if any; an exception
\* of classify_task is caught in the loop and leaves the step without a
\* TaskSpec.
BuildFaults == {"none", "classify_task", "extract_spec"}

\* Lines 38-90: the loop of build_workflow from segment n on.  TaskRequest
\* rejects an empty segment (min_length=1).
RECURSIVE BuildSteps(_, _, _, _, _, _)
BuildSteps(wf, steps, n, previous_step_id, hexes, faults) ==
    IF n > Len(steps) THEN [raised |-> FALSE, workflow |-> wf]
    ELSE IF steps[n] = {} \/ faults[n] = "extract_spec"
    THEN [raised |-> TRUE, workflow |-> wf]
    ELSE LET step_id == StepIdStr(n, hexes[n])
             task_spec == IF faults[n] = "classify_task" THEN NoSpec
                          ELSE classify_task([request_id |-> step_id,
                                              user_input |-> steps[n],
                                              domain_hint |-> NoHint])
             step == WorkflowStep(step_id, FALSE, task_spec,
                                  StepDependsOn(previous_step_id))
                     @@ [description |-> steps[n]]
             added == add_step(wf, step)
         IN  IF added.raised THEN added
             ELSE BuildSteps(added.workflow, steps, n + 1, step_id, hexes, faults)

\* WorkflowBuilder.build_workflow
build_workflow(text, hexes, faults) ==
    BuildSteps(Workflow(WfId, EmptyDict), _decompose_request(text), 1, NoPrevious,
               hexes, faults)

\* A client builds a workflow; the variable holds the workflow returned,
\* and keeps what it held if build_workflow raised.  build_workflow makes
\* a new Workflow whatever was built before; the model follows the first
\* one that gets steps.
BuildWorkflow ==
    /\ workflow.steps = <<>>
    /\ \E text \in BuildInputs :
          \E hexes \in [1..Len(text.parts) -> HexPool],
             bad \in 1..Len(text.parts), fault \in BuildFaults :
             LET faults == [k \in 1..Len(text.parts) |->
                              IF k = bad THEN fault ELSE "none"]
                 built == build_workflow(text, hexes, faults)
             IN  /\ request' = [kind |-> "build_workflow", answers |-> <<>>,
                                user_input |-> text]
                 /\ raised' = built.raised
                 /\ workflow' = IF built.raised THEN workflow ELSE built.workflow
    /\ UNCHANGED <<session, active_workflows, audit, pc, ready_steps, idx,
                   progress_made, started, kernel_calls, calls, policy, task>>

\* The steps a client adds by hand.
AddedSteps ==
    {WorkflowStep(id, FALSE, NoSpec, deps) @@ [description |-> {"mean"}] :
        id \in {"s1", "s2", "step_1_a1b2c3"}, deps \in {{}, {"s1"}}}

\* A client calls workflow.add_step(step).
AddStep ==
    /\ Len(workflow.steps) < MaxSteps
    /\ \E step \in AddedSteps :
          LET added == add_step(workflow, step)
          IN  /\ request' = [kind |-> "add_step", answers |-> <<>>, step |-> step]
              /\ raised' = added.raised
              /\ workflow' = added.workflow
    /\ UNCHANGED <<session, active_workflows, audit, pc, ready_steps, idx,
                   progress_made, started, kernel_calls, calls, policy, task>>

(***************************************************************************)
(* runtime/orchestrator.py: several run_workflow invocations on the same  *)
(* Workflow and Session objects.  An invocation runs until run_step has   *)
(* set its step ACTIVE and calls the compliance collaborator (line 37),   *)
(* where another invocation can run; pc, ready_steps, idx and             *)
(* progress_made hold the locals of each invocation.                      *)
(***************************************************************************)
\* The invocations: one per call the callers make.
Invocations == 1..MaxCalls

\* Lines 191-214 and 222-224 from the for loop at position i of the batch
\* on, up to line 32 of the next run_step or to the return: the workflow
\* and the locals afterwards, and the index of the step started (0 if
\* none).
RaceStartNext(wf, batch, i, progress) ==
    LET ready == get_ready_steps(wf)
        Local(w, at, b, n, pr, st) ==
            [workflow |-> w, pc |-> at, ready_steps |-> b, idx |-> n,
             progress_made |-> pr, start |-> st]
    IN  IF i <= Len(batch)
        THEN Local([wf EXCEPT !.steps[batch[i]].status = ACTIVE], "step", batch, i,
                   progress, batch[i])
        ELSE IF ~progress THEN Local(wf, "returned", batch, i, progress, 0)
        ELSE IF ready = <<>>
        THEN Local([wf EXCEPT !.status = ResolveStatus(wf)], "returned", batch, i,
                   progress, 0)
        ELSE Local([wf EXCEPT !.steps[ready[1]].status = ACTIVE], "step", ready, 1,
                   FALSE, ready[1])

\* The locals of invocation p and the shared objects after a move of p.
RaceMove(p, n) ==
    /\ workflow' = n.workflow
    /\ pc' = [pc EXCEPT ![p] = n.pc]
    /\ ready_steps' = [ready_steps EXCEPT ![p] = n.ready_steps]
    /\ idx' = [idx EXCEPT ![p] = n.idx]
    /\ progress_made' = [progress_made EXCEPT ![p] = n.progress_made]
    /\ started' = IF n.start = 0 THEN started
                  ELSE [started EXCEPT ![n.start] = @ + 1]

\* A caller invokes run_workflow(workflow, session); request.concurrent
\* tells whether some invocation was made while another was under way.
RaceCall(p) ==
    /\ pc[p] = "idle"
    /\ calls' = calls + 1
    /\ request' = [kind |-> "run_workflow", answers |-> <<>>,
                   concurrent |-> (request.concurrent
                                   \/ \E q \in Invocations : pc[q] = "step")]
    /\ session' = EnterRunWorkflow(session, workflow)
    /\ RaceMove(p, RaceStartNext(workflow, <<>>, 1, TRUE))
    /\ UNCHANGED <<active_workflows, audit, raised, kernel_calls, policy, task>>

\* Invocation p goes on after the compliance call: the rest of run_step
\* (lines 37-181), lines 215-220 of run_workflow, and the loop up to the
\* next run_step or the return.
RaceResume(p) ==
    /\ pc[p] = "step"
    /\ \E kout \in {"ok_dict", "fail"} :
          LET i == ready_steps[p][idx[p]]
              o == StepOutcome(workflow.steps[i], session, "none", kout)
              wf1 == [workflow EXCEPT !.steps[i].status = o.status,
                                      !.steps[i].output = o.output,
                                      !.steps[i].error = o.error]
              sess1 == [session EXCEPT !.history = @ \o o.history]
              po == PostOutcome(wf1.steps[i], sess1, "none")
              wf2 == IF o.next = "post"
                     THEN [wf1 EXCEPT !.steps[i].status = po.status,
                                      !.steps[i].output = po.output]
                     ELSE wf1
              st == wf2.steps[i].status
          IN  /\ session' = IF o.next = "post" THEN po.session ELSE sess1
              /\ audit' = audit \o o.audit \o (IF o.next = "post" THEN po.audit ELSE <<>>)
              /\ kernel_calls' = [kernel_calls EXCEPT
                                    ![i] = @ + (IF o.kernel_called THEN 1 ELSE 0)]
              /\ IF st = FAILED
                 THEN RaceMove(p, [workflow |-> [wf2 EXCEPT !.status = FAILED],
                                   pc |-> "returned", ready_steps |-> ready_steps[p],
                                   idx |-> idx[p], progress_made |-> progress_made[p],
                                   start |-> 0])
                 ELSE RaceMove(p, RaceStartNext(wf2, ready_steps[p], idx[p] + 1,
                                                progress_made[p] \/ st = COMPLETED))
    /\ UNCHANGED <<active_workflows, request, raised, calls, policy, task>>

(***************************************************************************)
(* router/classifier.py: classify_task called on its own.                 *)
(***************************************************************************)
\* The texts classify_task is called on, as the sets of phrases they hold.
ClassifyInputs ==
    {{"<whitespace>"}, {"hello"}, {"kg"}, {"lb"}, {"lbm", "kg"}, {"gal"}, {"="},
     {"specific weight"}, {"specific weight", "lb"}, {"density", "kg"}, {"gamma"},
     {"mean"}, {"sample"}, {"sample size 5"}, {"participant"}, {"water"},
     {"water", "hypothesis"}, {"water", "hypothesis", "irb"},
     {"hypothesis", "sample size 5", "lbs"}, {"mean", "sample size 5"},
     {"hypothesis", "mean", "kg"}}

\* The domain hints of the requests: None, the empty string, values of the
\* Domain enum with and without a subdomain, and names the enum lacks.
ClassifyHints ==
    {NoHint, "", "experiment", "chemistry", "physics.fluids", "physics.fluids.pipes",
     "biology.cells", "biology"}

\* classify_task(TaskRequest(request_id=..., user_input=..., domain_hint=...))
ClassifyTask ==
    /\ \E user_input \in ClassifyInputs, hint \in ClassifyHints :
          LET req == [request_id |-> 1, user_input |-> user_input, domain_hint |-> hint]
          IN  task' = [served |-> 1, request |-> req, spec |-> classify_task(req)]
    /\ UNCHANGED <<workflow, session, active_workflows, audit, request, pc,
                   ready_steps, idx, progress_made, raised, started, kernel_calls,
                   calls, policy>>

\* Workflows of any shape; of the calls that can raise, the kernel and the
\* audit sink do.
Next ==
    \/ RunWorkflow
    \/ GetReady
    \/ ForStep
    \/ RunStepBody({"none", "execute"}, {"ok_dict", "fail"})
    \/ RunStepPost({"none", "log_audit"})
    \/ AfterStep
    \/ AnswerClarification(AnswerLists)

Spec == Init /\ [][Next]_vars

\* Chains; every call can raise and the kernel returns any kind of output.
NextChain ==
    \/ RunWorkflow
    \/ GetReady
    \/ ForStep
    \/ RunStepBody(BodyFaults, KernelOutcomes)
    \/ RunStepPost(PostFaults)
    \/ AfterStep
    \/ AnswerClarification(AnswerLists)

SpecChain == InitChain /\ [][NextChain]_vars

\* Steps that pass access and gates.
BatchPool == {<<FALSE, SpecOk>>}

\* Workflows of any dependency shape whose steps all reach the kernel.
InitBatch ==
    /\ Constructed(BatchSteps, BatchPool, {"default_user"}, {SeedContext}, FALSE)
    /\ policy = BasePolicy

\* run_workflow is called on them; no call raises and the kernel succeeds
\* or reports failure.
NextBatch ==
    \/ RunWorkflow
    \/ GetReady
    \/ ForStep
    \/ RunStepBody({"none"}, {"ok_dict", "fail"})
    \/ RunStepPost({"none"})
    \/ AfterStep

SpecBatch == InitBatch /\ [][NextBatch]_vars

\* The gateway with no workflow stored and no request served; wf is what
\* the workflow variable holds.
Idle(wf) ==
    /\ workflow = wf
    /\ session = [user_id |-> "default_user", active_workflow_id |-> NoWorkflowId,
                  context |-> EmptyDict, history |-> <<>>]
    /\ active_workflows = {}
    /\ audit = <<>>
    /\ request = [kind |-> "none", answers |-> <<>>]
    /\ pc = "idle"
    /\ ready_steps = <<>>
    /\ idx = 0
    /\ progress_made = FALSE
    /\ raised = FALSE
    /\ started = <<>>
    /\ kernel_calls = <<>>
    /\ calls = 0
    /\ task = NoTask

\* The gateway before any request, under either version of the policy
\* tables.
InitTask ==
    /\ Idle(Workflow(NoWorkflowId, EmptyDict))
    /\ policy \in Policies

NextTask ==
    \/ SubmitTask

SpecTask == InitTask /\ [][NextTask]_vars

\* Workflows of any dependency shape whose steps all reach the kernel,
\* stored and shared by the invocations, none of which was made yet.
InitRace ==
    /\ \E deps \in [1..NumSteps -> SUBSET (0..NumSteps)] :
          /\ \A i \in 1..NumSteps : deps[i] \in DepChoices(i, NumSteps)
          /\ \E pick \in [1..NumSteps -> BatchPool] :
                workflow = [workflow_id |-> WfId,
                            steps |-> [i \in 1..NumSteps |->
                                         WorkflowStep(i, pick[i][1], pick[i][2], deps[i])],
                            context |-> SeedContext,
                            status |-> PENDING]
    /\ session = [user_id |-> "default_user", active_workflow_id |-> NoWorkflowId,
                  context |-> EmptyDict, history |-> <<>>]
    /\ active_workflows = {WfId}
    /\ audit = <<>>
    /\ request = [kind |-> "none", answers |-> <<>>, concurrent |-> FALSE]
    /\ pc = [p \in Invocations |-> "idle"]
    /\ ready_steps = [p \in Invocations |-> <<>>]
    /\ idx = [p \in Invocations |-> 0]
    /\ progress_made = [p \in Invocations |-> FALSE]
    /\ raised = FALSE
    /\ started = [i \in 1..NumSteps |-> 0]
    /\ kernel_calls = [i \in 1..NumSteps |-> 0]
    /\ calls = 0
    /\ policy = BasePolicy
    /\ task = NoTask

\* The invocations take turns in any order.
NextRace ==
    \/ \E p \in Invocations : RaceCall(p)
    \/ \E p \in Invocations : RaceResume(p)

SpecRace == InitRace /\ [][NextRace]_vars

\* The steps of the workflows that answer requests resume.
AnswerPool == {<<FALSE, SpecOk>>, <<FALSE, SpecGallon>>, <<TRUE, SpecGallon>>,
               <<FALSE, SpecClarify>>, <<FALSE, SpecUnregisteredGate>>,
               <<FALSE, SpecOnlyUnregistered>>}

\* A session and a workflow as a caller of the module stores them
\* (tests/test_api_endpoints.py:70-87): the session names the workflow or
\* none, the workflow is in active_workflows or not, and no request is
\* under way.
InitAnswer ==
    /\ \E pick \in [1..ChainSteps -> AnswerPool] :
          workflow = [workflow_id |-> WfId,
                      steps |-> [i \in 1..ChainSteps |->
                                   WorkflowStep(i, pick[i][1], pick[i][2],
                                                IF i = 1 THEN {} ELSE {i - 1})],
                      context |-> SeedContext,
                      status |-> PENDING]
    /\ \E wid \in {NoWorkflowId, WfId} :
          session = [user_id |-> "default_user", active_workflow_id |-> wid,
                     context |-> EmptyDict, history |-> <<>>]
    /\ active_workflows \in {{}, {WfId}}
    /\ audit = <<>>
    /\ request = [kind |-> "none", answers |-> <<>>]
    /\ pc = "returned"
    /\ ready_steps = <<>>
    /\ idx = 0
    /\ progress_made = FALSE
    /\ raised = FALSE
    /\ started = [i \in 1..ChainSteps |-> 0]
    /\ kernel_calls = [i \in 1..ChainSteps |-> 0]
    /\ calls = 0
    /\ policy \in Policies
    /\ task = NoTask

NextAnswer ==
    \/ AnswerUnknownSession(AnswerLists)
    \/ AnswerClarification(AnswerLists)
    \/ PolicyChange
    \/ GetReady
    \/ ForStep
    \/ RunStepBody({"none"}, {"ok_dict", "fail"})
    \/ RunStepPost({"none"})
    \/ AfterStep

SpecAnswer == InitAnswer /\ [][NextAnswer]_vars

\* Nothing was classified yet.
InitClassify ==
    /\ Idle(Workflow(NoWorkflowId, EmptyDict))
    /\ policy = BasePolicy

NextClassify ==
    \/ ClassifyTask

SpecClassify == InitClassify /\ [][NextClassify]_vars

\* A workflow without steps, as Workflow(workflow_id="wf_1", name=...)
\* constructs it.
InitBuild ==
    /\ Idle(Workflow(WfId, EmptyDict))
    /\ policy = BasePolicy

\* Workflows are built from requests and steps are added by hand.
NextBuild ==
    \/ BuildWorkflow
    \/ AddStep

SpecBuild == InitBuild /\ [][NextBuild]_vars

(***************************************************************************)
(* The properties.                                                         *)
(***************************************************************************)
NSteps == Len(workflow.steps)

\* The step run_step is working on (pc in "step", "post", "ret").
Cur == ready_steps[idx]

StatusOf(k) == workflow.steps[k].status

\* The steps that are PENDING and whose every dependency is the id of a
\* COMPLETED step of the workflow.
Eligible ==
    {k \in 1..NSteps :
        /\ StatusOf(k) = PENDING
        /\ \A dep \in workflow.steps[k].depends_on :
              \E j \in 1..NSteps :
                 workflow.steps[j].step_id = dep /\ StatusOf(j) = COMPLETED}

\* C1: at every scheduling pass the batch run_workflow takes is exactly the
\* PENDING steps whose dependencies are all COMPLETED steps of the workflow,
\* in workflow.steps order; a step being executed has all its dependencies
\* COMPLETED; a step depending on an id no step carries is never started.
C1_ReadySetExact ==
    /\ (pc = "for" /\ idx = 1) =>
          /\ {ready_steps[k] : k \in 1..Len(ready_steps)} = Eligible
          /\ \A a, b \in 1..Len(ready_steps) : a < b => ready_steps[a] < ready_steps[b]
    /\ pc \in {"step", "post"} =>
          \A dep \in workflow.steps[Cur].depends_on :
             \E j \in 1..NSteps :
                workflow.steps[j].step_id = dep /\ StatusOf(j) = COMPLETED
    /\ \A k \in 1..NSteps :
          (\E dep \in workflow.steps[k].depends_on :
              \A j \in 1..NSteps : workflow.steps[j].step_id # dep)
          => started[k] = 0

\* s1 without dependencies has completed and the next pass takes exactly [s2],
\* which depends on s1.
C1_Witness ==
    /\ NSteps >= 2
    /\ pc = "for" /\ idx = 1
    /\ ready_steps = <<2>>
    /\ workflow.steps[1].depends_on = {} /\ StatusOf(1) = COMPLETED
    /\ workflow.steps[2].depends_on = {1}
    /\ started[1] = 1 /\ started[2] = 0

\* C2: when a step execution ends FAILED, run_workflow sets the workflow
\* FAILED and returns at once, starting no further step and changing no step
\* and nothing in the session; and while a step executes, every other step
\* keeps its status and output and the keys already in session.context keep
\* their values unless the step completes and merges its own result.
C2_FailFast ==
    [][ /\ (pc = "ret" /\ StatusOf(Cur) = FAILED) =>
              /\ pc' = "returned"
              /\ workflow'.status = FAILED
              /\ workflow'.steps = workflow.steps
              /\ session' = session
              /\ started' = started
              /\ kernel_calls' = kernel_calls
        /\ pc \in {"step", "post"} =>
              /\ \A k \in 1..NSteps : k # Cur => workflow'.steps[k] = workflow.steps[k]
              /\ workflow'.steps[Cur].status = FAILED =>
                    \A key \in Keys : session'.context[key] = session.context[key]
              /\ Len(session'.history) >= Len(session.history)
              /\ SubSeq(session'.history, 1, Len(session.history)) = session.history
      ]_vars

\* The first step of a two-step ready batch failed: the call returned with the
\* workflow FAILED and the second step, ready in the same batch, never started.
C2_Witness ==
    /\ NSteps >= 2
    /\ pc = "returned" /\ calls = 1
    /\ workflow.status = FAILED
    /\ StatusOf(1) = FAILED /\ workflow.steps[1].depends_on = {}
    /\ StatusOf(2) = PENDING /\ workflow.steps[2].depends_on = {}
    /\ started[2] = 0

\* C3: whenever run_workflow has returned with workflow.status COMPLETED,
\* every step is COMPLETED.
C3_CompletedMeansAllCompleted ==
    (pc = "returned" /\ workflow.status = COMPLETED) =>
        \A k \in 1..NSteps : StatusOf(k) = COMPLETED

\* C4: whenever run_workflow has returned and some step is FAILED, the
\* workflow is FAILED.
C4_FailedStepMeansFailed ==
    (pc = "returned" /\ \E k \in 1..NSteps : StatusOf(k) = FAILED) =>
        workflow.status = FAILED

\* C5: whenever run_workflow has returned with no FAILED step and some step
\* not COMPLETED, the workflow is BLOCKED.
C5_StuckMeansBlocked ==
    (/\ pc = "returned"
     /\ \A k \in 1..NSteps : StatusOf(k) # FAILED
     /\ \E k \in 1..NSteps : StatusOf(k) # COMPLETED) =>
        workflow.status = BLOCKED

\* C6: a step's status changes only PENDING -> ACTIVE (run_step's first
\* statement), ACTIVE -> COMPLETED, FAILED or BLOCKED (inside run_step) and
\* BLOCKED -> PENDING (inside answer_clarification); in particular a
\* COMPLETED or FAILED step never changes status again.
C6_StepStateMachine ==
    [][ \A k \in 1..NSteps :
          LET a == StatusOf(k)
              b == workflow'.steps[k].status
          IN  a # b =>
                \/ a = PENDING /\ b = ACTIVE /\ pc = "for"
                \/ a = ACTIVE /\ b \in {COMPLETED, FAILED, BLOCKED} /\ pc = "step"
                \/ /\ a = BLOCKED /\ b = PENDING
                   /\ pc = "returned" /\ request'.kind = "answer_clarification"
      ]_vars

\* C7: the kernel of a step is invoked at most once over all calls, and
\* run_step is never called on a step that is COMPLETED.
C7_AtMostOnce ==
    [][ \A k \in 1..NSteps :
          /\ kernel_calls'[k] <= 1
          /\ StatusOf(k) = COMPLETED => started'[k] = started[k] ]_vars

\* After a resumption through answer_clarification one step is COMPLETED,
\* executed once, while another step was executed a second time.
C7_Witness ==
    /\ pc = "returned" /\ calls = 2 /\ request.kind = "answer_clarification"
    /\ \E i, j \in 1..NSteps :
          /\ StatusOf(i) = COMPLETED /\ started[i] = 1 /\ kernel_calls[i] = 1
          /\ started[j] = 2

\* C8: a step that a CLARIFY gate decision blocked is, once answers to its
\* questions were submitted through answer_clarification and the workflow
\* was run again, not left BLOCKED by gates.
C8_ResumeMakesProgress ==
    \A k \in 1..NSteps :
       (/\ pc = "returned" /\ request.kind = "answer_clarification"
        /\ started[k] >= 2
        /\ ~workflow.steps[k].spec.none
        /\ \E n \in 1..Len(run_gates(workflow.steps[k].spec)) :
              run_gates(workflow.steps[k].spec)[n].decision = CLARIFY
        /\ session.context["answer_q1"] # Absent
        /\ session.context["answer_q2"] # Absent)
       => ~(StatusOf(k) = BLOCKED /\ workflow.steps[k].error.kind = "gates")

\* The answer of the last pair of the list that names question q.
LastAnswer(answers, q) ==
    LET S == {n \in 1..Len(answers) : answers[n].question_id = q}
    IN  answers[CHOOSE n \in S : \A m \in S : m <= n].answer

BlockingGates(spec) ==
    {n \in 1..Len(spec.required_gates) :
        /\ spec.required_gates[n] \in GATES
        /\ gate_fn(spec.required_gates[n], spec).decision \in {CLARIFY, REJECT, ESCALATE}}

AccessDenied(k) == ~IsAdmin(session.user_id) /\ workflow.steps[k].sensitive

C12_RunGatesComplete ==
    (/\ pc \in {"post", "ret"} /\ ~raised
     /\ ~workflow.steps[Cur].spec.none
     /\ check_access(session.user_id, workflow.steps[Cur], "execute")) =>
        LET spec == workflow.steps[Cur].spec
            ds == run_gates(spec)
        IN  /\ Len(ds) = Len(spec.required_gates)
            /\ \A n \in 1..Len(spec.required_gates) :
                  n <= Len(ds) /\ ds[n].gate_id = spec.required_gates[n]
            /\ get_blocking_decisions(ds) =
                  SelectSeq(ds, LAMBDA d : d.decision \in {CLARIFY, REJECT, ESCALATE})

\* C13: run_step always returns, and whatever is raised inside it ends the
\* step FAILED with the message in step.output: a missing spec, an empty
\* selected_kernels and an unknown kernel id do (the kernel is not invoked),
\* and so does an exception of the compliance check, a gate, the kernel or
\* a later collaborator call.  Every return of run_workflow leaves
\* workflow.status PENDING, COMPLETED, FAILED or BLOCKED.
C13_NeverRaises ==
    [][ /\ pc = "step" =>
              LET step == workflow.steps[Cur]
                  after == workflow'.steps[Cur]
                  failed == /\ raised' /\ pc' = "ret"
                            /\ after.status = FAILED /\ after.output.kind = "error"
                  granted == check_access(session.user_id, step, "execute")
                  passed == /\ granted /\ ~step.spec.none
                            /\ get_blocking_decisions(run_gates(step.spec)) = <<>>
              IN  /\ pc' \in {"post", "ret"}
                  /\ raised' => failed
                  /\ (granted /\ step.spec.none) => failed
                  /\ (passed /\ step.spec.selected_kernels = <<>>) =>
                        failed /\ kernel_calls' = kernel_calls
                  /\ (/\ passed /\ step.spec.selected_kernels # <<>>
                      /\ step.spec.selected_kernels[1] \notin KERNEL_REGISTRY) =>
                        failed /\ kernel_calls' = kernel_calls
        /\ pc = "post" =>
              /\ pc' = "ret"
              /\ raised' => /\ workflow'.steps[Cur].status = FAILED
                            /\ workflow'.steps[Cur].output.kind = "error"
        /\ pc' = "returned" =>
              workflow'.status \in {PENDING, COMPLETED, FAILED, BLOCKED}
      ]_vars

\* run_workflow has returned FAILED after the step's first selected kernel
\* was not found in the registry; the message is in step.output.
C13_Witness ==
    /\ pc = "returned" /\ raised
    /\ workflow.status = FAILED
    /\ StatusOf(Cur) = FAILED
    /\ workflow.steps[Cur].output = ErrorOutput("Kernel not found in registry")
    /\ kernel_calls[Cur] = 0

\* How far the current run_workflow call is from its next call of run_step,
\* by the place it is at.
CallRank ==
    CASE pc = "step" -> 6
      [] pc = "post" -> 5
      [] pc = "ret" -> 4
      [] pc = "for" /\ idx > Len(ready_steps) -> 3
      [] pc = "loop" -> 2
      [] pc = "for" /\ idx <= Len(ready_steps) -> 1
      [] OTHER -> 0

\* A bound on the steps a run_workflow call has left: every call of
\* run_step takes one step out of PENDING.
CallMeasure == 7 * Cardinality({k \in 1..NSteps : StatusOf(k) = PENDING}) + CallRank

\* C14: every run_workflow call terminates, whatever the dependencies are
\* and however the steps end: each step the call takes brings it strictly
\* closer to its return (CallMeasure is a natural number that decreases).
\* In one call run_step is called only on PENDING steps and no step becomes
\* PENDING again, so each step is executed at most once and at most as many
\* executions happen as there are steps.
C14_Terminates ==
    [][ pc \notin {"idle", "returned"} =>
           /\ CallMeasure' < CallMeasure
           /\ \A k \in 1..NSteps :
                 /\ started'[k] \in {started[k], started[k] + 1}
                 /\ started'[k] > started[k] => StatusOf(k) = PENDING
                 /\ workflow'.steps[k].status = PENDING => StatusOf(k) = PENDING
      ]_vars

\* A call has returned on a workflow whose first step was blocked again on
\* its second attempt and whose second step depends on itself and was never
\* executed.
C14_Witness ==
    /\ pc = "returned" /\ calls = 2
    /\ NSteps = 2
    /\ StatusOf(1) = BLOCKED /\ started[1] = 2
    /\ workflow.steps[2].depends_on = {2}
    /\ StatusOf(2) = PENDING /\ started[2] = 0

\* The positions of the decisions of a list that are CLARIFY, REJECT or
\* ESCALATE.
BlockingAt(ds) == {n \in 1..Len(ds) : ds[n].decision \in {CLARIFY, REJECT, ESCALATE}}

Elems(xs) == {xs[n] : n \in 1..Len(xs)}

\* No element stands twice in the sequence.
NoDuplicates(xs) == \A m, n \in 1..Len(xs) : xs[m] = xs[n] => m = n

\* C16: in the response to a blocked /task request the payload's reason
\* codes, required fields and question prompts are the unions of those of
\* the blocking decisions, and none of them holds an element twice.
C16_ClarifyUnion ==
    (task.served > 0 /\ task.response.status \in {"clarify", "reject"}) =>
        LET ds == task.response.gate_decisions
            B == BlockingAt(ds)
            payload == task.response.clarify
            prompts == [n \in 1..Len(payload.questions) |-> payload.questions[n].prompt]
        IN  /\ Elems(payload.reason_codes) = UNION {Elems(ds[n].reasons) : n \in B}
            /\ Elems(payload.required_fields) = UNION {Elems(ds[n].required_fields) : n \in B}
            /\ Elems(prompts) = UNION {Elems(ds[n].clarifying_questions) : n \in B}
            /\ NoDuplicates(payload.reason_codes)
            /\ NoDuplicates(payload.required_fields)
            /\ NoDuplicates(prompts)

\* The fields of a TaskSpec other than request_id.
SpecFields(spec) ==
    <<spec.user_input, spec.domain, spec.subdomain, spec.risk_level, spec.needs_units,
      spec.has_equations, spec.required_gates, spec.selected_kernels, spec.confidence>>

HasAmbiguity(text) ==
    \/ \E n \in 1..Len(policy.disallowed) : Contains(text, policy.disallowed[n])
    \/ \E n \in 1..Len(policy.collisions) : Contains(text, policy.collisions[n])
    \/ \E n \in 1..Len(policy.ambiguous_units) : HasToken(text, policy.ambiguous_units[n].unit)

\* C18: for the TaskSpec classify_task made of a request, the gates return
\* a blocking decision iff the user_input holds an ambiguous or disallowed
\* term of the policy tables or an ambiguous unit token.
C18_BlockingIff ==
    task.served > 0 =>
        (get_blocking_decisions(run_gates(task.spec)) # <<>>
            <=> HasAmbiguity(task.spec.user_input))

\* The step_ids of a list of steps, in list order.
StepIds(steps) == [k \in 1..Len(steps) |-> steps[k].step_id]

\* C19: the workflow build_workflow returned has one step per segment of
\* the request, in segment order; every step is PENDING; the step_ids are
\* pairwise distinct; the first step depends on nothing and every later
\* step on exactly the step before it; every id in a depends_on is the id
\* of a step of the workflow.
C19_BuildChain ==
    (request.kind = "build_workflow" /\ ~raised) =>
        LET segments == _decompose_request(request.user_input)
            steps == workflow.steps
        IN  /\ Len(steps) = Len(segments)
            /\ \A k \in 1..Len(steps) :
                  /\ steps[k].description = segments[k]
                  /\ steps[k].status = PENDING
                  /\ steps[k].depends_on =
                        (IF k = 1 THEN {} ELSE {steps[k - 1].step_id})
                  /\ steps[k].depends_on \subseteq Elems(StepIds(steps))
            /\ NoDuplicates(StepIds(steps))

\* A workflow of three steps was built; two steps got the same random
\* suffix and one step has no TaskSpec.
C19_Witness ==
    /\ request.kind = "build_workflow"
    /\ ~raised
    /\ Len(workflow.steps) = 3
    /\ workflow.steps[1].step_id = "step_1_a1b2c3"
    /\ workflow.steps[2].step_id = "step_2_a1b2c3"
    /\ workflow.steps[3].depends_on = {"step_2_a1b2c3"}
    /\ workflow.steps[2].spec = NoSpec
    /\ workflow.steps[3].spec # NoSpec

\* C20: add_step with a step whose step_id is already in the workflow
\* raises and leaves the step list as it was; with a new step_id it appends
\* the step; after the call the step_ids are pairwise distinct.
C20_AddStepUnique ==
    [][request'.kind = "add_step" =>
          LET step == request'.step
              dup == \E k \in 1..Len(workflow.steps) :
                        workflow.steps[k].step_id = step.step_id
          IN  /\ dup => (raised' /\ workflow'.steps = workflow.steps)
              /\ ~dup => (~raised' /\ workflow'.steps = Append(workflow.steps, step))
              /\ NoDuplicates(StepIds(workflow'.steps))]_vars

\* add_step raised for the id of a step that build_workflow had added.
C20_Witness ==
    /\ request.kind = "add_step"
    /\ raised
    /\ request.step.step_id = "step_1_a1b2c3"
    /\ Len(workflow.steps) = 2
    /\ workflow.steps[1].step_id = "step_1_a1b2c3"

\* The number of history entries of a type.
HistoryCount(history, type) ==
    Cardinality({n \in 1..Len(history) : history[n].type = type})

\* The number of steps with a status.
StatusCount(steps, status) ==
    Cardinality({k \in 1..Len(steps) : steps[k].status = status})

\* C21: run_step appends one step_failed entry to the session history when
\* the kernel reports failure and one step_complete entry when the step
\* ends COMPLETED, and nothing when the step ends BLOCKED or ends FAILED
\* before the kernel ran; session.context changes iff the step ends
\* COMPLETED with a mapping as result, which is merged.  Whenever no
\* run_step is under way, the history holds as many step_complete entries
\* as there are COMPLETED steps.
C21_HistoryPerKernelRun ==
    [][ /\ (pc = "step" /\ pc' = "ret") =>
              LET step == workflow.steps[Cur]
                  after == workflow'.steps[Cur]
              IN  /\ session'.context = session.context
                  /\ IF kernel_calls'[Cur] > kernel_calls[Cur] /\ ~raised'
                     THEN /\ after.status = FAILED
                          /\ Len(session'.history) = Len(session.history) + 1
                          /\ SubSeq(session'.history, 1, Len(session.history)) = session.history
                          /\ session'.history[Len(session'.history)].type = "step_failed"
                     ELSE /\ kernel_calls'[Cur] = kernel_calls[Cur] =>
                                after.status \in {BLOCKED, FAILED}
                          /\ session'.history = session.history
        /\ (pc = "step" /\ pc' = "post") =>
              /\ session' = session
              /\ kernel_calls'[Cur] = kernel_calls[Cur] + 1
        /\ (pc = "post" /\ workflow'.steps[Cur].status = COMPLETED) =>
              LET result == workflow.steps[Cur].output
              IN  /\ Len(session'.history) = Len(session.history) + 1
                  /\ SubSeq(session'.history, 1, Len(session.history)) = session.history
                  /\ session'.history[Len(session'.history)].type = "step_complete"
                  /\ session'.context =
                        (IF result.is_dict THEN DictUpdate(session.context, result.value)
                         ELSE session.context)
        /\ pc' \notin {"step", "post"} =>
              HistoryCount(session'.history, "step_complete")
                 = StatusCount(workflow'.steps, COMPLETED)
      ]_vars

C23_FirstKernelOnly ==
    [][ /\ (/\ pc = "step"
            /\ check_access(session.user_id, workflow.steps[Cur], "execute")
            /\ ~workflow.steps[Cur].spec.none
            /\ BlockingGates(workflow.steps[Cur].spec) = {}) =>
              LET kernels == workflow.steps[Cur].spec.selected_kernels
                  after == workflow'.steps[Cur]
              IN  IF kernels = <<>> \/ kernels[1] \notin KERNEL_REGISTRY
                  THEN /\ after.status = FAILED
                       /\ pc' = "ret"
                       /\ kernel_calls' = kernel_calls
                  ELSE raised' \/ kernel_calls'[Cur] = kernel_calls[Cur] + 1
        /\ (pc = "post" /\ workflow'.steps[Cur].status = COMPLETED) =>
              /\ session'.history[Len(session'.history)].data.kernel =
                    workflow.steps[Cur].spec.selected_kernels[1]
              /\ audit'[Len(audit')].details.kernel =
                    workflow.steps[Cur].spec.selected_kernels[1]
              /\ kernel_calls' = kernel_calls
      ]_vars

\* A step whose first kernel is not registered and whose second one is has
\* ended FAILED without a kernel call.
C23_Witness ==
    /\ pc = "ret"
    /\ workflow.steps[Cur].spec = SpecUnknownKernel
    /\ SpecUnknownKernel.selected_kernels[1] \notin KERNEL_REGISTRY
    /\ SpecUnknownKernel.selected_kernels[2] \in KERNEL_REGISTRY
    /\ StatusOf(Cur) = FAILED
    /\ workflow.steps[Cur].output = ErrorOutput("Kernel not found in registry")
    /\ kernel_calls[Cur] = 0

\* The steps that are ACTIVE.
ActiveSteps(steps) == {k \in 1..Len(steps) : steps[k].status = ACTIVE}

\* C24: at most one step is ACTIVE at any moment and none is when
\* run_workflow returns; the step run_workflow starts is the first, in the
\* order of workflow.steps, of all the steps that are ready at that moment
\* (PENDING with every dependency COMPLETED).
C24_ListOrderAmongReady ==
    [][ /\ Cardinality(ActiveSteps(workflow'.steps)) <= 1
        /\ pc' = "returned" => ActiveSteps(workflow'.steps) = {}
        /\ \A k \in 1..NSteps :
              started'[k] # started[k] =>
                 /\ k \in Eligible
                 /\ \A j \in Eligible : k <= j
      ]_vars

\* C24 (amended): at most one step is ACTIVE at any moment and none is when
\* run_workflow returns.  The step run_workflow starts is the first, in the
\* order of workflow.steps, of the steps of its current ready batch that
\* are ready at that moment; a step that became ready after the batch was
\* computed waits for the next batch.  No other step is started by the
\* same move.
C24_OneAtATime ==
    [][ /\ Cardinality(ActiveSteps(workflow'.steps)) <= 1
        /\ pc' = "returned" => ActiveSteps(workflow'.steps) = {}
        /\ \A k \in 1..NSteps :
              started'[k] # started[k] =>
                 /\ started'[k] = started[k] + 1
                 /\ pc = "for" /\ pc' = "step"
                 /\ workflow'.steps[k].status = ACTIVE
                 /\ k \in Eligible
                 /\ \A j \in Eligible :
                       (\E n \in 1..Len(ready_steps) : ready_steps[n] = j) => k <= j
                 /\ \A j \in 1..NSteps : j # k => started'[j] = started[j]
      ]_vars

\* The third step is ACTIVE as the second of the batch <<1, 3>>; the second
\* step, which waited for the first, is ready and was not started.
C24_Witness ==
    /\ pc = "step"
    /\ ready_steps = <<1, 3>>
    /\ Cur = 3
    /\ ActiveSteps(workflow.steps) = {3}
    /\ StatusOf(1) = COMPLETED
    /\ StatusOf(2) = PENDING
    /\ workflow.steps[2].depends_on = {1}
    /\ started = <<1, 0, 1>>

\* The number of keywords of entry k of the domain table that the text holds.
KeywordScore(text, k) ==
    Cardinality({kw \in DOMAIN_KEYWORDS[k].keywords :
                    \E phrase \in text : kw \in Substrings(phrase)})

\* C25: with a domain_hint, the domain and the subdomain of the TaskSpec
\* are the hint split at its first ".", whatever the text holds and
\* whatever the hint is.  Without one, they are those of the entry of the
\* domain table with the highest keyword score, the first such entry if
\* several share it; if no keyword hits, the domain is general and there is
\* no subdomain.
C25_DomainResolution ==
    task.served > 0 =>
        LET req == task.request
            spec == task.spec
            hit == {k \in 1..Len(DOMAIN_KEYWORDS) : KeywordScore(req.user_input, k) > 0}
            best == CHOOSE k \in hit :
                       \A j \in hit :
                          \/ KeywordScore(req.user_input, j) < KeywordScore(req.user_input, k)
                          \/ (KeywordScore(req.user_input, j) = KeywordScore(req.user_input, k)
                              /\ k <= j)
        IN  IF req.domain_hint # NoHint
            THEN /\ spec.domain = SplitDomain(req.domain_hint).main
                 /\ spec.subdomain = SplitDomain(req.domain_hint).sub
            ELSE IF hit = {}
            THEN spec.domain = "general" /\ spec.subdomain = "None"
            ELSE /\ spec.domain = SplitDomain(DOMAIN_KEYWORDS[best].domain).main
                 /\ spec.subdomain = SplitDomain(DOMAIN_KEYWORDS[best].domain).sub

\* C26: the required_gates of a classified TaskSpec are, in this order and
\* each at most once: schema_gate; unit_consistency_gate iff the text holds
\* a unit word; ambiguity_gate iff it holds an ambiguous term;
\* experiment_safety_gate iff the domain of the spec is experiment.  No
\* other gate is required.
C26_RequiredGates ==
    task.served > 0 =>
        LET text == task.request.user_input
            spec == task.spec
            unit == \E u \in UNIT_PATTERNS : u \in text
            ambiguous == \E n \in 1..Len(AMBIGUOUS_TERMS) :
                            \E phrase \in text : AMBIGUOUS_TERMS[n] \in Substrings(phrase)
        IN  spec.required_gates =
               <<"schema_gate">>
               \o (IF unit THEN <<"unit_consistency_gate">> ELSE <<>>)
               \o (IF ambiguous THEN <<"ambiguity_gate">> ELSE <<>>)
               \o (IF spec.domain = "experiment" THEN <<"experiment_safety_gate">> ELSE <<>>)

\* A text with a unit, an ambiguous term and an experiment keyword was
\* classified without a hint: all four gates are required.
C26_Witness ==
    /\ task.served > 0
    /\ task.request.domain_hint = NoHint
    /\ task.request.user_input = {"hypothesis", "sample size 5", "lbs"}
    /\ task.spec.domain = "experiment"
    /\ task.spec.required_gates = <<"schema_gate", "unit_consistency_gate",
                                    "ambiguity_gate", "experiment_safety_gate">>

C28_AnswersRecordedFirst ==
    [][calls' = calls + 1 =>
        IF request'.kind = "answer_unknown_session"
        THEN /\ session' = session
             /\ workflow' = workflow
             /\ pc' = pc
             /\ audit' = audit
        ELSE LET answers == request'.answers
                 n0 == Len(session.history)
             IN  /\ \A n \in 1..Len(answers) :
                       /\ session'.context[AnswerKey(answers[n].question_id)]
                             = LastAnswer(answers, answers[n].question_id)
                       /\ session'.history[n0 + n].type = "user_clarification"
                       /\ session'.history[n0 + n].data
                             = [question |-> answers[n].question_id,
                                answer |-> answers[n].answer]
                 /\ Len(session'.history) = n0 + Len(answers)
                 /\ (session.active_workflow_id = NoWorkflowId
                     \/ session.active_workflow_id \notin active_workflows)
                    => /\ workflow' = workflow
                       /\ pc' = pc
                       /\ started' = started
                       /\ session'.active_workflow_id = session.active_workflow_id
                       /\ audit' = audit]_vars

\* An answer request failed for a session without an active workflow: the
\* answers are in the session, no step has run.
C28_Witness ==
    /\ calls = 1
    /\ request.kind = "answer_clarification"
    /\ Len(request.answers) = 2
    /\ session.active_workflow_id = NoWorkflowId
    /\ session.context["answer_q1"] = "a"
    /\ session.context["answer_q2"] = "b"
    /\ Len(session.history) = 2
    /\ pc = "returned"
    /\ \A k \in 1..NSteps : started[k] = 0 /\ StatusOf(k) = PENDING

====
